---- MODULE Spec2Model ----
(***************************************************************************)
(* A model of scripts/download_pdfs.py: the crawl of an Apache directory   *)
(* listing (crawl), its URL handling (urllib.parse as the script uses it), *)
(* the link classifier, the size probe, the downloader and the local path  *)
(* derivation.                                                             *)
(*                                                                         *)
(* Strings are sequences of one-character strings, so that every string    *)
(* operation of the script (startswith, endswith, split, lower, unquote,   *)
(* urljoin, urldefrag) is computed character by character.                 *)
(***************************************************************************)
EXTENDS Integers, Sequences, FiniteSets, TLC

(***************************************************************************)
(* Python str operations                                                   *)
(***************************************************************************)

UpperCase == <<"A","B","C","D","E","F","G","H","I","J","K","L","M",
               "N","O","P","Q","R","S","T","U","V","W","X","Y","Z">>

LowerCase == <<"a","b","c","d","e","f","g","h","i","j","k","l","m",
               "n","o","p","q","r","s","t","u","v","w","x","y","z">>

Digits == <<"0","1","2","3","4","5","6","7","8","9">>

\* str.lower() on one character
LowerChar(c) ==
    IF \E i \in 1..26 : UpperCase[i] = c
    THEN LowerCase[CHOOSE i \in 1..26 : UpperCase[i] = c]
    ELSE c

\* str.lower()
Lower(s) == [i \in 1..Len(s) |-> LowerChar(s[i])]

\* str.startswith(p)
StartsWith(s, p) == Len(s) >= Len(p) /\ SubSeq(s, 1, Len(p)) = p

\* str.endswith(p)
EndsWith(s, p) == Len(s) >= Len(p) /\ SubSeq(s, Len(s) - Len(p) + 1, Len(s)) = p

\* c in s
Contains(s, c) == \E i \in 1..Len(s) : s[i] = c

\* str.find(c) + 1: the first position of c in s, 0 when absent
Find(s, c) ==
    IF Contains(s, c)
    THEN CHOOSE i \in 1..Len(s) : s[i] = c /\ \A j \in 1..(i-1) : s[j] # c
    ELSE 0

\* s[i:] with i counted from 1
Drop(s, i) == SubSeq(s, i, Len(s))

\* str.split(c)
RECURSIVE Split(_, _)
Split(s, c) ==
    IF ~Contains(s, c) THEN <<s>>
    ELSE <<SubSeq(s, 1, Find(s, c) - 1)>> \o Split(Drop(s, Find(s, c) + 1), c)

\* c.join(parts)
RECURSIVE Join(_, _)
Join(parts, c) ==
    IF Len(parts) = 0 THEN <<>>
    ELSE IF Len(parts) = 1 THEN parts[1]
    ELSE parts[1] \o <<c>> \o Join(Tail(parts), c)

\* str.isspace of one character of the model's alphabet
IsSpace(c) == c \in {" ", "\t"}

\* str.lstrip(c) and str.rstrip(c)
RECURSIVE LStripChar(_, _)
LStripChar(s, c) ==
    IF Len(s) > 0 /\ s[1] = c THEN LStripChar(Tail(s), c) ELSE s

RECURSIVE RStripChar(_, _)
RStripChar(s, c) ==
    IF Len(s) > 0 /\ s[Len(s)] = c THEN RStripChar(SubSeq(s, 1, Len(s)-1), c) ELSE s

\* str.lstrip() and str.rstrip()
RECURSIVE LStrip(_)
LStrip(s) == IF Len(s) > 0 /\ IsSpace(s[1]) THEN LStrip(Tail(s)) ELSE s

RECURSIVE RStrip(_)
RStrip(s) ==
    IF Len(s) > 0 /\ IsSpace(s[Len(s)]) THEN RStrip(SubSeq(s, 1, Len(s)-1)) ELSE s

\* str.strip(): whitespace removed at both ends
Strip(s) == RStrip(LStrip(s))

(***************************************************************************)
(* urllib.parse                                                            *)
(***************************************************************************)

HexDigits == <<"0","1","2","3","4","5","6","7","8","9","a","b","c","d","e","f">>

IsHex(c) == \E i \in 1..16 : HexDigits[i] = LowerChar(c)

HexVal(c) == (CHOOSE i \in 1..16 : HexDigits[i] = LowerChar(c)) - 1

\* chr() for the code points the model's alphabet needs: the whitespace
\* control characters, all alike to the script, are one character; any other
\* byte is shown as the replacement character, as unquote(errors="replace")
\* shows a byte that is no UTF-8 text
Chr(n) ==
    CASE n = 32 -> " "
      [] n \in (9..13) \cup (28..31) -> "\t"
      [] n = 35 -> "#"
      [] n = 37 -> "%"
      [] n = 46 -> "."
      [] n = 47 -> "/"
      [] n = 59 -> ";"
      [] n = 63 -> "?"
      [] n >= 48 /\ n <= 57 -> Digits[n - 47]
      [] n >= 65 /\ n <= 90 -> UpperCase[n - 64]
      [] n >= 97 /\ n <= 122 -> LowerCase[n - 96]
      [] OTHER -> "REPL"

\* parse.unquote: every %XY with two hex digits becomes the character
\* whose code it is; a '%' not followed by two hex digits stays
RECURSIVE unquote(_)
unquote(s) ==
    IF Len(s) = 0 THEN <<>>
    ELSE IF s[1] = "%" /\ Len(s) >= 3 /\ IsHex(s[2]) /\ IsHex(s[3])
         THEN <<Chr(16 * HexVal(s[2]) + HexVal(s[3]))>> \o unquote(Drop(s, 4))
         ELSE <<s[1]>> \o unquote(Tail(s))

IsAlpha(c) == \E i \in 1..26 : LowerCase[i] = LowerChar(c)

IsSchemeChar(c) ==
    \/ IsAlpha(c)
    \/ \E i \in 1..10 : Digits[i] = c
    \/ c \in {"+", "-", "."}

\* the first position in s, from position from, of a character of cs;
\* Len(s) + 1 when there is none
FirstOf(s, cs, from) ==
    IF \E i \in from..Len(s) : s[i] \in cs
    THEN CHOOSE i \in from..Len(s) : s[i] \in cs /\ \A j \in from..(i-1) : s[j] \notin cs
    ELSE Len(s) + 1

\* s up to the first c (all of s when c is absent): s.split(c, 1)[0]
BeforeChar(s, c) == IF Contains(s, c) THEN SubSeq(s, 1, Find(s, c) - 1) ELSE s

\* s after the first c (empty when c is absent)
AfterChar(s, c) == IF Contains(s, c) THEN Drop(s, Find(s, c) + 1) ELSE <<>>

\* urlsplit: url starts with a scheme, letters, digits, '+', '-', '.' up to
\* the first ':', the first a letter
HasScheme(url) ==
    /\ Find(url, ":") > 1
    /\ IsAlpha(url[1])
    /\ \A j \in 1..(Find(url, ":") - 1) : IsSchemeChar(url[j])

\* urlsplit: the query is what follows the first '?' of what is left
SplitQuery(sch, net, rest, frag) ==
    [scheme |-> sch, netloc |-> net, path |-> BeforeChar(rest, "?"),
     query |-> AfterChar(rest, "?"), fragment |-> frag]

\* urlsplit: the fragment is what follows the first '#'
SplitFragment(sch, net, rest) ==
    SplitQuery(sch, net, BeforeChar(rest, "#"), AfterChar(rest, "#"))

\* urlsplit: after '//' the netloc runs to the first '/', '?' or '#'
SplitNetloc(sch, rest) ==
    IF StartsWith(rest, <<"/", "/">>)
    THEN SplitFragment(sch,
                       SubSeq(rest, 3, FirstOf(rest, {"/", "?", "#"}, 3) - 1),
                       Drop(rest, FirstOf(rest, {"/", "?", "#"}, 3)))
    ELSE SplitFragment(sch, <<>>, rest)

\* urlsplit: the scheme is taken off the url
SplitScheme(url, default) ==
    IF HasScheme(url)
    THEN SplitNetloc(Lower(BeforeChar(url, ":")), AfterChar(url, ":"))
    ELSE SplitNetloc(default, url)

\* parse.urlsplit(url, scheme=default): scheme, netloc, path, query,
\* fragment of the url without its leading spaces and control characters
urlsplit(url, default) == SplitScheme(LStrip(url), default)

\* the schemes of urllib's uses_params that occur here
UsesParams == { <<>>, <<"h","t","t","p">>, <<"h","t","t","p","s">> }

\* s.rfind('/'), counted from 1; 0 when there is none
LastSlash(s) ==
    IF Contains(s, "/")
    THEN CHOOSE i \in 1..Len(s) : s[i] = "/" /\ \A j \in (i+1)..Len(s) : s[j] # "/"
    ELSE 0

\* _splitparams: the place of the first ';' of the last segment
ParamsAt(path) ==
    IF LastSlash(path) > 0 THEN FirstOf(path, {";"}, LastSlash(path))
    ELSE FirstOf(path, {";"}, 1)

\* urlparse: the path is cut at place i, what follows is the params
WithParams(p, i) ==
    [scheme |-> p.scheme, netloc |-> p.netloc,
     path |-> SubSeq(p.path, 1, i - 1),
     params |-> IF i < Len(p.path) THEN Drop(p.path, i + 1) ELSE <<>>,
     query |-> p.query, fragment |-> p.fragment]

SplitParams(p) ==
    IF p.scheme \in UsesParams /\ Contains(p.path, ";")
    THEN WithParams(p, ParamsAt(p.path))
    ELSE WithParams(p, Len(p.path) + 1)

\* parse.urlparse(url, scheme=default): urlsplit, then the params of the last
\* path segment are taken off the path
urlparse_scheme(url, default) == SplitParams(urlsplit(url, default))

\* parse.urlparse(url)
urlparse(url) == urlparse_scheme(url, <<>>)

\* the schemes of urllib's uses_relative and uses_netloc that occur here
UsesRelative == { <<>>, <<"h","t","t","p">>, <<"h","t","t","p","s">> }

\* urlunsplit: '//' and the netloc before the path
WithNetloc(p) ==
    IF Len(p.netloc) > 0
       \/ (Len(p.scheme) > 0 /\ p.scheme \in UsesRelative
           /\ ~StartsWith(p.path, <<"/", "/">>))
    THEN <<"/", "/">> \o p.netloc
         \o (IF Len(p.path) > 0 /\ p.path[1] # "/" THEN <<"/">> ELSE <<>>)
         \o p.path
    ELSE p.path

\* parse.urlunsplit
urlunsplit(p) ==
    (IF Len(p.scheme) > 0 THEN p.scheme \o <<":">> ELSE <<>>)
    \o WithNetloc(p)
    \o (IF Len(p.query) > 0 THEN <<"?">> \o p.query ELSE <<>>)
    \o (IF Len(p.fragment) > 0 THEN <<"#">> \o p.fragment ELSE <<>>)

\* parse.urlunparse
urlunparse(p) ==
    urlunsplit([scheme |-> p.scheme, netloc |-> p.netloc,
                path |-> IF Len(p.params) > 0
                         THEN p.path \o <<";">> \o p.params ELSE p.path,
                query |-> p.query, fragment |-> p.fragment])

\* parse.urldefrag(url)[0]
urldefrag(url) ==
    IF Contains(url, "#")
    THEN urlunparse([urlparse(url) EXCEPT !.fragment = <<>>])
    ELSE url

\* the loop of urljoin that resolves '.' and '..' segments
RECURSIVE ResolveSegments(_, _)
ResolveSegments(segs, acc) ==
    IF Len(segs) = 0 THEN acc
    ELSE IF segs[1] = <<".", ".">>
         THEN ResolveSegments(Tail(segs),
                              IF Len(acc) > 0 THEN SubSeq(acc, 1, Len(acc)-1) ELSE acc)
    ELSE IF segs[1] = <<".">>
         THEN ResolveSegments(Tail(segs), acc)
    ELSE ResolveSegments(Tail(segs), Append(acc, segs[1]))

\* segments[1:-1] = filter(None, segments[1:-1])
FilterInner(segs) ==
    IF Len(segs) <= 2 THEN segs
    ELSE <<segs[1]>>
         \o SelectSeq(SubSeq(segs, 2, Len(segs)-1), LAMBDA x : Len(x) > 0)
         \o <<segs[Len(segs)]>>

\* urljoin: the base path without its last segment when that is no directory
BaseParts(parts) ==
    IF Len(parts[Len(parts)]) # 0 THEN SubSeq(parts, 1, Len(parts) - 1) ELSE parts

\* urljoin: the segments to resolve
JoinSegments(bpath, path) ==
    IF Len(path) > 0 /\ path[1] = "/" THEN Split(path, "/")
    ELSE FilterInner(BaseParts(Split(bpath, "/")) \o Split(path, "/"))

\* urljoin: the resolved path of the segments
ResolvedPath(segments) ==
    Join(IF segments[Len(segments)] \in { <<".">>, <<".", ".">> }
         THEN Append(ResolveSegments(segments, <<>>), <<>>)
         ELSE ResolveSegments(segments, <<>>),
         "/")

OrSlash(path) == IF Len(path) = 0 THEN <<"/">> ELSE path

\* urljoin once base and url are split
JoinSplit(b, u, url) ==
    IF u.scheme # b.scheme \/ u.scheme \notin UsesRelative THEN url
    ELSE IF Len(u.netloc) > 0 THEN urlunparse(u)
    ELSE IF Len(u.path) = 0 /\ Len(u.params) = 0
         THEN urlunparse([u EXCEPT !.netloc = b.netloc, !.path = b.path,
                                   !.params = b.params,
                                   !.query = IF Len(u.query) = 0 THEN b.query
                                             ELSE u.query])
    ELSE urlunparse([u EXCEPT !.netloc = b.netloc,
                              !.path = OrSlash(ResolvedPath(JoinSegments(b.path, u.path)))])

JoinBase(b, url) == JoinSplit(b, urlparse_scheme(url, b.scheme), url)

\* parse.urljoin(base, url)
urljoin(base, url) ==
    IF Len(base) = 0 THEN url
    ELSE IF Len(url) = 0 THEN base
    ELSE JoinBase(urlparse(base), url)

(***************************************************************************)
(* The script's URL helpers and the link classifier                        *)
(***************************************************************************)

\* normalize_directory_url, lines 78-80
WithSlash(stripped) ==
    IF ~EndsWith(stripped, <<"/">>) THEN Append(stripped, "/") ELSE stripped

\* the fragment is dropped and no slash is added
normalize_without_slash(url) == urldefrag(url)

normalize_directory_url(url) == WithSlash(urldefrag(url))

is_same_origin(url, base) ==
    /\ urlparse(url).scheme = urlparse(base).scheme
    /\ urlparse(url).netloc = urlparse(base).netloc

\* base_path of is_within_base_path and build_local_path
BasePath(base) == WithSlash(urlparse(base).path)

\* the prefix test against the base path without its final slash
within_unslashed_base_path(url, base) ==
    StartsWith(urlparse(url).path, RStripChar(urlparse(base).path, "/"))

is_within_base_path(url, base) == StartsWith(urlparse(url).path, BasePath(base))

\* should_skip_link, line 99, on href.lower()
SkipLower(href_lower) ==
    \/ StartsWith(href_lower, <<"?">>)
    \/ StartsWith(href_lower, <<"#">>)
    \/ StartsWith(href_lower, <<"j","a","v","a","s","c","r","i","p","t",":">>)
    \/ StartsWith(href_lower, <<"m","a","i","l","t","o",":">>)

should_skip_link(href) == SkipLower(Lower(href))

\* s.split("/")[-1]
LastSegment(s) == Split(s, "/")[Len(Split(s, "/"))]

\* the extension is compared as written, upper case unlike lower case
ClassifyCaseSensitive(decoded) ==
    IF decoded \in { <<>>, <<".">>, <<".", ".">> }
       \/ StartsWith(decoded, <<".", ".", "/">>)
    THEN "skip"
    ELSE IF EndsWith(decoded, <<".", "p", "d", "f">>) THEN "pdf"
    ELSE IF EndsWith(decoded, <<"/">>) THEN "dir"
    ELSE IF ~Contains(LastSegment(decoded), ".") THEN "dir"
    ELSE "other"

\* classify_link, lines 104-114, on the decoded href
ClassifyDecoded(decoded) ==
    IF decoded \in { <<>>, <<".">>, <<".", ".">> }
       \/ StartsWith(decoded, <<".", ".", "/">>)
    THEN "skip"
    ELSE IF EndsWith(Lower(decoded), <<".", "p", "d", "f">>) THEN "pdf"
    ELSE IF EndsWith(decoded, <<"/">>) THEN "dir"
    ELSE IF ~Contains(LastSegment(decoded), ".") THEN "dir"
    ELSE "other"

classify_link(href) == ClassifyDecoded(Strip(unquote(href)))

\* pathlib.PurePosixPath(p).parts: empty and '.' segments are dropped, '..'
\* is kept, a leading '/' is a part of its own
PosixParts(p) ==
    (IF StartsWith(p, <<"/">>) THEN << <<"/">> >> ELSE <<>>)
    \o SelectSeq(Split(p, "/"), LAMBDA x : Len(x) > 0 /\ x # <<".">>)

\* pathlib.PurePosixPath(p).name
LastName(parts) ==
    IF Len(parts) = 0 \/ parts[Len(parts)] = <<"/">> THEN <<>>
    ELSE parts[Len(parts)]

PosixName(p) == LastName(PosixParts(p))

\* dest_root.joinpath(*parts): a local path is the sequence of its parts
\* beneath nothing; an absolute part restarts the path (pathlib)
RECURSIVE JoinPath(_, _)
JoinPath(root, parts) ==
    IF Len(parts) = 0 THEN root
    ELSE IF parts[1] = <<"/">> THEN JoinPath(<< <<"/">> >>, Tail(parts))
    ELSE JoinPath(Append(root, parts[1]), Tail(parts))

\* build_local_path, lines 177-180
RelPath(path, base_path) ==
    LStripChar(IF StartsWith(path, base_path)
               THEN Drop(path, Len(base_path) + 1) ELSE path,
               "/")

\* build_local_path, lines 181-183
LocalPath(path, rel_path, root) ==
    JoinPath(root, PosixParts(IF Len(rel_path) = 0 THEN PosixName(path) ELSE rel_path))

\* build_local_path, lines 171-176, with the path of url and base_path
LocalPathOf(path, base_path, root) ==
    LocalPath(path, RelPath(path, base_path), root)

build_local_path(url, base, root) ==
    LocalPathOf(urlparse(url).path, BasePath(base), root)

(***************************************************************************)
(* The downloader's two decisions                                          *)
(***************************************************************************)

\* Optional[int]: None is the empty sequence, n is <<n>>
None == <<>>

Some(n) == <<n>>

\* the existing file is kept when its size differs from the expected one
SkipWhenDifferent(exists, local_size, expected_size) ==
    exists /\ expected_size # None /\ local_size # expected_size

\* the existing file is kept also when the expected size is unknown
SkipWhenUnknown(exists, local_size, expected_size) ==
    exists /\ (expected_size = None \/ local_size = expected_size)

\* download_file, lines 136-140: the existing file is kept and the call
\* returns at once
SkipExisting(exists, local_size, expected_size) ==
    exists /\ expected_size # None /\ local_size = expected_size

\* the sizes are not compared after the copy
OutcomeUnchecked(expected_size, downloaded_size) == "downloaded"

\* download_file, lines 161-168: what is reported after the copy
DownloadOutcome(expected_size, downloaded_size) ==
    IF expected_size # None /\ Some(downloaded_size) # expected_size
    THEN "size-mismatch-warning"
    ELSE "downloaded"

\* the dry_run flag is not looked at
DryRunIgnored(dry) == FALSE

\* download_file, line 150: with dry_run the call returns before it makes a
\* directory or opens a URL
DryRunReturns(dry) == dry

\* crawl, line 194
AlreadyVisited(normalized, seen) == normalized \in seen

\* the URL as dequeued is put in the visited set, not its normal form
VisitCurrent(normalized, cur, seen) == seen \cup {cur}

\* crawl, line 196
Visit(normalized, cur, seen) == seen \cup {normalized}

(***************************************************************************)
(* The world around the script: the remote trees and the destination       *)
(***************************************************************************)

\* the largest size of a file found in the destination before the first run
MaxSize == 2

\* main, lines 239-240: the absolute destination directory
dest_root == << <<"/">>, <<"o","u","t">> >>

\* an ordinary listing: a sort link, the parent directory, a directory linked
\* without and with its slash, a file of known size, a file of another type;
\* the sub-directory links back to its parent and holds a file whose size the
\* server does not give
Site_plain ==
    [root  |-> <<"h","t","t","p","s",":","/","/","h","/","i","m","a","g","e","s","/">>,
     pages |->
         (<<"h","t","t","p","s",":","/","/","h","/","i","m","a","g","e","s","/">>
            :> << <<"?","C","=","N">>,
                  <<"/">>,
                  <<"s","u","b">>,
                  <<"s","u","b","/">>,
                  <<"r","e","p","o","r","t",".","p","d","f">>,
                  <<"i","m","a","g","e",".","p","n","g">> >>)
         @@ (<<"h","t","t","p","s",":","/","/","h","/","i","m","a","g","e","s","/","s","u","b","/">>
            :> << <<"/","i","m","a","g","e","s","/">>,
                  <<"b",".","p","d","f">> >>),
     files |->
         (<<"h","t","t","p","s",":","/","/","h","/","i","m","a","g","e","s","/","r","e","p","o","r","t",".","p","d","f">>
            :> [body |-> 2, head |-> Some(2)])
         @@ (<<"h","t","t","p","s",":","/","/","h","/","i","m","a","g","e","s","/","s","u","b","/","b",".","p","d","f">>
            :> [body |-> 1, head |-> None]),
     pre   |-> {dest_root \o << <<"r","e","p","o","r","t",".","p","d","f">> >>}]

\* the root is given without its slash; a/ links to b/ and to itself, b/
\* links back to a/ and to its parent
Site_cycle ==
    [root  |-> <<"h","t","t","p","s",":","/","/","h","/","i","m","a","g","e","s">>,
     pages |->
         (<<"h","t","t","p","s",":","/","/","h","/","i","m","a","g","e","s","/">>
            :> << <<"a","/">> >>)
         @@ (<<"h","t","t","p","s",":","/","/","h","/","i","m","a","g","e","s","/","a","/">>
            :> << <<"/","i","m","a","g","e","s","/","b","/">>,
                  <<".","/">> >>)
         @@ (<<"h","t","t","p","s",":","/","/","h","/","i","m","a","g","e","s","/","b","/">>
            :> << <<"/","i","m","a","g","e","s","/","a","/">>,
                  <<".",".","/">>,
                  <<"x",".","p","d","f">> >>),
     files |->
         (<<"h","t","t","p","s",":","/","/","h","/","i","m","a","g","e","s","/","b","/","x",".","p","d","f">>
            :> [body |-> 1, head |-> Some(1)]),
     pre   |-> {}]

\* a directory linked with and without its slash, the slashless link
\* dequeued first, an entry without a dot that is no directory, and a
\* sub-directory that holds an entry of its own name
Site_slashes ==
    [root  |-> <<"h","t","t","p","s",":","/","/","h","/","i","m","a","g","e","s","/">>,
     pages |->
         (<<"h","t","t","p","s",":","/","/","h","/","i","m","a","g","e","s","/">>
            :> << <<"s","u","b","/">>,
                  <<"s","u","b">>,
                  <<"r","e","a","d","m","e">> >>)
         @@ (<<"h","t","t","p","s",":","/","/","h","/","i","m","a","g","e","s","/","s","u","b","/">>
            :> << <<"c",".","p","d","f">>,
                  <<"s","u","b">> >>),
     files |->
         (<<"h","t","t","p","s",":","/","/","h","/","i","m","a","g","e","s","/","s","u","b","/","c",".","p","d","f">>
            :> [body |-> 1, head |-> Some(1)]),
     pre   |-> {}]

\* links that leave the root: another host, another scheme, a path outside
\* the root, dot segments, percent-encoded dot segments, and an absolute URL
\* whose path goes up from the root with a dot segment
Site_escape ==
    [root  |-> <<"h","t","t","p","s",":","/","/","h","/","i","m","a","g","e","s","/">>,
     pages |->
         (<<"h","t","t","p","s",":","/","/","h","/","i","m","a","g","e","s","/">>
            :> << <<"h","t","t","p","s",":","/","/","o","/","i","m","a","g","e","s","/","x",".","p","d","f">>,
                  <<"h","t","t","p",":","/","/","h","/","i","m","a","g","e","s","/","x",".","p","d","f">>,
                  <<"/","x",".","p","d","f">>,
                  <<"a","/",".",".","/",".",".","/","x",".","p","d","f">>,
                  <<"/","/","o","/","i","m","a","g","e","s","/","d","/">>,
                  <<"/","i","m","a","g","e","s","X","/">>,
                  <<"%","2","e","%","2","e","/","x",".","p","d","f">>,
                  <<"a","/","%","2","e","%","2","e","/","x",".","p","d","f">>,
                  <<"m","a","i","l","t","o",":","a","@","b">>,
                  <<"#","f","r","a","g">>,
                  <<"J","a","v","a","S","c","r","i","p","t",":","x">>,
                  <<"h","t","t","p","s",":","/","/","h","/","i","m","a","g","e","s","/",".",".","/","x",".","p","d","f">> >>),
     files |->
         (<<"h","t","t","p","s",":","/","/","h","/","i","m","a","g","e","s","/","a","/","%","2","e","%","2","e","/","x",".","p","d","f">>
            :> [body |-> 1, head |-> Some(1)])
         @@ (<<"h","t","t","p","s",":","/","/","h","/","i","m","a","g","e","s","/",".",".","/","x",".","p","d","f">>
            :> [body |-> 1, head |-> Some(1)]),
     pre   |-> {}]

\* percent-encoded and upper-case names, a file whose Content-Length is not
\* its length, a file linked twice
Site_names ==
    [root  |-> <<"h","t","t","p","s",":","/","/","h","/","i","m","a","g","e","s","/">>,
     pages |->
         (<<"h","t","t","p","s",":","/","/","h","/","i","m","a","g","e","s","/">>
            :> << <<"m","y","%","2","0","f","i","l","e",".","p","d","f">>,
                  <<"R","E","P","O","R","T",".","P","D","F">>,
                  <<"2","0","2","0","/">> >>)
         @@ (<<"h","t","t","p","s",":","/","/","h","/","i","m","a","g","e","s","/","2","0","2","0","/">>
            :> << <<"r","e","p","o","r","t",".","p","d","f">>,
                  <<"/","i","m","a","g","e","s","/","2","0","2","0","/","r","e","p","o","r","t",".","p","d","f">> >>),
     files |->
         (<<"h","t","t","p","s",":","/","/","h","/","i","m","a","g","e","s","/","m","y","%","2","0","f","i","l","e",".","p","d","f">>
            :> [body |-> 2, head |-> Some(2)])
         @@ (<<"h","t","t","p","s",":","/","/","h","/","i","m","a","g","e","s","/","R","E","P","O","R","T",".","P","D","F">>
            :> [body |-> 1, head |-> Some(2)])
         @@ (<<"h","t","t","p","s",":","/","/","h","/","i","m","a","g","e","s","/","2","0","2","0","/","r","e","p","o","r","t",".","p","d","f">>
            :> [body |-> 2, head |-> Some(2)]),
     pre   |-> {dest_root \o << <<"2","0","2","0">>, <<"r","e","p","o","r","t",".","p","d","f">> >>}]

\* a directory linked with its slash and then without it, so that crawl
\* dequeues the slashless link first, and a file of the same name in the
\* directory and in its parent: every request is answered
Site_shadow ==
    [root  |-> <<"h","t","t","p","s",":","/","/","h","/","i","m","a","g","e","s","/">>,
     pages |->
         (<<"h","t","t","p","s",":","/","/","h","/","i","m","a","g","e","s","/">>
            :> << <<"s","u","b","/">>,
                  <<"s","u","b">>,
                  <<"i","n","d","e","x",".","p","d","f">> >>)
         @@ (<<"h","t","t","p","s",":","/","/","h","/","i","m","a","g","e","s","/","s","u","b","/">>
            :> << <<"i","n","d","e","x",".","p","d","f">> >>),
     files |->
         (<<"h","t","t","p","s",":","/","/","h","/","i","m","a","g","e","s","/","i","n","d","e","x",".","p","d","f">>
            :> [body |-> 1, head |-> Some(1)])
         @@ (<<"h","t","t","p","s",":","/","/","h","/","i","m","a","g","e","s","/","s","u","b","/","i","n","d","e","x",".","p","d","f">>
            :> [body |-> 2, head |-> Some(2)]),
     pre   |-> {}]

Sites ==
    [plain |-> Site_plain, cycle |-> Site_cycle, slashes |-> Site_slashes,
     escape |-> Site_escape, names |-> Site_names, shadow |-> Site_shadow]

\* request.urlopen of a listing URL: the server answers a directory URL that
\* lacks its slash with a redirect to the one that has it, which urlopen
\* follows; a URL that names no directory is a 404, an HTTPError
ServedPage(s, url) ==
    IF url \in DOMAIN Sites[s].pages THEN << Sites[s].pages[url] >>
    ELSE IF Append(url, "/") \in DOMAIN Sites[s].pages
         THEN << Sites[s].pages[Append(url, "/")] >>
    ELSE <<>>

\* the directories that mkdir(parents=True) makes for a file at path
Parents(path) == { SubSeq(path, 1, k) : k \in 1..(Len(path) - 1) }

\* the files that may lie in the destination before the first run
InitialFiles(s) ==
    UNION { [P -> 0..MaxSize] : P \in SUBSET Sites[s].pre }

(***************************************************************************)
(* State                                                                   *)
(***************************************************************************)

VARIABLES
    site,       \* the remote tree of this behaviour (a name of Sites)
    dry_run,    \* crawl's dry_run argument
    run,        \* 1 in the first run of the script, 2 in the second
    pc,         \* "loop": at 'while queue'; "links": at 'for href in links';
                \* "link": in the body of the for loop; "done": crawl
                \* returned; "aborted": crawl raised
    queue,      \* crawl's queue
    visited,    \* crawl's visited
    current,    \* crawl's current
    links,      \* the hrefs of the current listing not yet taken by the loop
    link,       \* the locals of the pass of the for loop under way
    files,      \* the destination: local path -> size in bytes
    dirs,       \* the directories that exist under (and above) the destination
    fetched,    \* the listing URLs requested in this run, slash added
    refetched,  \* those requested more than once in this run
    clean,      \* no request failed and no transfer was cut short so far
    last,       \* what the last step did
    input,      \* the argument of the function under test (pure functions)
    output      \* its result

vars == <<site, dry_run, run, pc, queue, visited, current, links, link,
          files, dirs, fetched, refetched, clean, last, input, output>>

crawlVars == <<site, dry_run, run, pc, queue, visited, current, links, link,
               files, dirs, fetched, refetched, clean, last>>

\* crawl, line 187
base_url == normalize_directory_url(Sites[site].root)

NoEvent ==
    [kind |-> "none", act |-> "", url |-> <<>>, href |-> <<>>, path |-> <<>>,
     expected |-> None, probeFailed |-> FALSE, existed |-> FALSE,
     sizeBefore |-> None, outcome |-> "", gets |-> 0, written |-> None]

NoLink == [href |-> <<>>, absolute |-> <<>>, act |-> "", local_path |-> <<>>]

NoInput == [fn |-> "none", href |-> <<>>, base |-> <<>>, segs |-> <<>>]

\* crawl, lines 187-189, entered from main; the destination exists (line 240)
StartCrawl(s, d, r, f) ==
    /\ site = s
    /\ dry_run = d
    /\ run = r
    /\ pc = "loop"
    /\ queue = << normalize_directory_url(Sites[s].root) >>
    /\ visited = {}
    /\ current = <<>>
    /\ links = <<>>
    /\ link = NoLink
    /\ files = f
    /\ dirs = {dest_root} \cup Parents(dest_root)
              \cup UNION { Parents(p) : p \in DOMAIN f }
    /\ fetched = {}
    /\ refetched = {}
    /\ clean = TRUE
    /\ last = NoEvent

Init ==
    /\ \E s \in DOMAIN Sites, d \in BOOLEAN :
          \E f \in InitialFiles(s) : StartCrawl(s, d, 1, f)
    /\ input = NoInput
    /\ output = <<>>

(***************************************************************************)
(* crawl: the while loop                                                   *)
(***************************************************************************)

\* the end of one pass of the for loop, or of a listing without links
AfterLinks(rest) == IF Len(rest) = 0 THEN "loop" ELSE "links"

\* the directory a listing URL names: the URL with its slash
Directory(url) == IF url[Len(url)] = "/" THEN url ELSE url \o <<"/">>

\* the request of line 201, recorded by the directory it asks for
NoteFetch(url) ==
    /\ fetched' = fetched \cup {Directory(url)}
    /\ refetched' = IF Directory(url) \in fetched
                    THEN refetched \cup {Directory(url)} ELSE refetched

\* lines 192-195: the dequeued URL was visited before. i is the place in the
\* queue of the URL that is removed: crawl removes the last one (PopVisited,
\* FetchFail, FetchOk below); the other places are the removal orders that
\* OrderSpec ranges over
PopVisitedAt(i) ==
    /\ pc = "loop"
    /\ i \in 1..Len(queue)
    /\ LET cur == queue[i]
           normalized == normalize_directory_url(cur)
       IN  /\ AlreadyVisited(normalized, visited)
           /\ queue' = SubSeq(queue, 1, i - 1) \o SubSeq(queue, i + 1, Len(queue))
           /\ current' = cur
           /\ last' = [NoEvent EXCEPT !.kind = "pop", !.act = "visited", !.url = cur]
    /\ UNCHANGED <<site, dry_run, run, pc, visited, links, link, files, dirs,
                   fetched, refetched, clean, input, output>>

\* line 192: queue.pop() removes the last URL of the list
PopVisited == PopVisitedAt(Len(queue))

\* lines 192-204: the dequeued URL is new and fetch_links raises URLError
\* (the server is unreachable, or answers with an error status)
FetchFailAt(i) ==
    /\ pc = "loop"
    /\ i \in 1..Len(queue)
    /\ LET cur == queue[i]
           normalized == normalize_directory_url(cur)
       IN  /\ ~AlreadyVisited(normalized, visited)
           /\ queue' = SubSeq(queue, 1, i - 1) \o SubSeq(queue, i + 1, Len(queue))
           /\ current' = cur
           /\ visited' = Visit(normalized, cur, visited)
           /\ NoteFetch(cur)
           /\ last' = [NoEvent EXCEPT !.kind = "fetch", !.act = "fail", !.url = cur]
    /\ clean' = FALSE
    /\ UNCHANGED <<site, dry_run, run, pc, links, link, files, dirs, input, output>>

\* line 192: queue.pop() removes the last URL of the list
FetchFail == FetchFailAt(Len(queue))

\* lines 192-204: the dequeued URL is new and fetch_links raises an
\* exception that is no URLError (the server closes the connection before
\* or while it answers: http.client.RemoteDisconnected, IncompleteRead,
\* BadStatusLine, a socket timeout); the except clause of line 202 does not
\* catch it and crawl ends there
FetchRaises ==
    /\ pc = "loop"
    /\ Len(queue) > 0
    /\ LET cur == queue[Len(queue)]
           normalized == normalize_directory_url(cur)
       IN  /\ ~AlreadyVisited(normalized, visited)
           /\ queue' = SubSeq(queue, 1, Len(queue) - 1)
           /\ current' = cur
           /\ visited' = Visit(normalized, cur, visited)
           /\ NoteFetch(cur)
           /\ last' = [NoEvent EXCEPT !.kind = "fetch", !.act = "raise", !.url = cur]
    /\ pc' = "aborted"
    /\ clean' = FALSE
    /\ UNCHANGED <<site, dry_run, run, links, link, files, dirs, input, output>>

\* lines 192-201: the dequeued URL is new and fetch_links returns its hrefs
FetchOkAt(i) ==
    /\ pc = "loop"
    /\ i \in 1..Len(queue)
    /\ LET cur == queue[i]
           normalized == normalize_directory_url(cur)
       IN  /\ ~AlreadyVisited(normalized, visited)
           /\ ServedPage(site, cur) # <<>>
           /\ queue' = SubSeq(queue, 1, i - 1) \o SubSeq(queue, i + 1, Len(queue))
           /\ current' = cur
           /\ visited' = Visit(normalized, cur, visited)
           /\ NoteFetch(cur)
           /\ links' = ServedPage(site, cur)[1]
           /\ pc' = AfterLinks(ServedPage(site, cur)[1])
           /\ last' = [NoEvent EXCEPT !.kind = "fetch", !.act = "ok", !.url = cur]
    /\ UNCHANGED <<site, dry_run, run, link, files, dirs, clean, input, output>>

\* line 192: queue.pop() removes the last URL of the list
FetchOk == FetchOkAt(Len(queue))

\* line 191: the queue is empty, crawl returns
Finish ==
    /\ pc = "loop"
    /\ Len(queue) = 0
    /\ pc' = "done"
    /\ last' = [NoEvent EXCEPT !.kind = "finish"]
    /\ UNCHANGED <<site, dry_run, run, queue, visited, current, links, link,
                   files, dirs, fetched, refetched, clean, input, output>>

\* the script is run again with the same arguments on what the first run left
SecondRun ==
    /\ pc = "done"
    /\ run = 1
    /\ run' = 2
    /\ pc' = "loop"
    /\ queue' = << normalize_directory_url(Sites[site].root) >>
    /\ visited' = {}
    /\ current' = <<>>
    /\ links' = <<>>
    /\ link' = NoLink
    /\ fetched' = {}
    /\ refetched' = {}
    /\ last' = [NoEvent EXCEPT !.kind = "start"]
    /\ UNCHANGED <<site, dry_run, files, dirs, clean, input, output>>

(***************************************************************************)
(* crawl: the for loop over the hrefs of one listing                       *)
(***************************************************************************)

\* line 212
InScope(absolute, base) ==
    is_same_origin(absolute, base) /\ is_within_base_path(absolute, base)

\* lines 207-208, 212-213 and 215 in the order the loop applies them: what
\* the loop does with an href whose absolute URL is absolute
LinkAction(href, absolute, base) ==
    IF should_skip_link(href) THEN "skip"
    ELSE IF ~InScope(absolute, base) THEN "scope"
    ELSE IF classify_link(href) = "dir" THEN "queue"
    ELSE IF classify_link(href) = "pdf" THEN "pdf"
    ELSE "ignore"

\* the locals of one pass of the loop: href, absolute (lines 209-210), what
\* becomes of the link, and local_path (line 220)
Resolved(href, absolute, base) ==
    [href |-> href,
     absolute |-> absolute,
     act |-> LinkAction(href, absolute, base),
     local_path |-> build_local_path(absolute, base, dest_root)]

\* the URLs at which a site serves a listing, and the hrefs of its listings
Served(s) ==
    DOMAIN Sites[s].pages
    \cup { SubSeq(u, 1, Len(u) - 1) : u \in DOMAIN Sites[s].pages }

Hrefs(s) ==
    UNION { { Sites[s].pages[u][i] : i \in 1..Len(Sites[s].pages[u]) }
            : u \in DOMAIN Sites[s].pages }

\* lines 209-210, 212-215 and 220 for every href a listing of a site can
\* hold, against every URL the listing can have been fetched from
LinkTable ==
    [s \in DOMAIN Sites |->
        [c \in Served(s), h \in Hrefs(s) |->
            Resolved(h, urldefrag(urljoin(c, h)),
                     normalize_directory_url(Sites[s].root))]]

\* lines 206-215 (and 220): the loop takes the next href
NextLink ==
    /\ pc = "links"
    /\ link' = LinkTable[site][current, Head(links)]
    /\ links' = Tail(links)
    /\ pc' = "link"
    /\ last' = [NoEvent EXCEPT !.kind = "href", !.href = Head(links)]
    /\ UNCHANGED <<site, dry_run, run, queue, visited, current, files, dirs,
                   fetched, refetched, clean, input, output>>

LinkEvent ==
    [NoEvent EXCEPT !.kind = "link", !.act = link.act, !.href = link.href,
                    !.url = IF link.act = "skip" THEN <<>> ELSE link.absolute]

\* lines 207-208, 212-213, and a link that is neither a directory nor a PDF
LinkDropped ==
    /\ pc = "link"
    /\ link.act \in {"skip", "scope", "ignore"}
    /\ pc' = AfterLinks(links)
    /\ last' = LinkEvent
    /\ UNCHANGED <<site, dry_run, run, queue, visited, current, links, link,
                   files, dirs, fetched, refetched, clean, input, output>>

\* a dry run drops the directory links instead of queueing them
LinkDirRealOnly ==
    /\ pc = "link"
    /\ link.act = "queue"
    /\ queue' = IF dry_run THEN queue ELSE Append(queue, link.absolute)
    /\ pc' = AfterLinks(links)
    /\ last' = LinkEvent
    /\ UNCHANGED <<site, dry_run, run, visited, current, links, link, files,
                   dirs, fetched, refetched, clean, input, output>>

\* lines 216-218
LinkDir ==
    /\ pc = "link"
    /\ link.act = "queue"
    /\ queue' = Append(queue, link.absolute)
    /\ pc' = AfterLinks(links)
    /\ last' = LinkEvent
    /\ UNCHANGED <<site, dry_run, run, visited, current, links, link, files,
                   dirs, fetched, refetched, clean, input, output>>

\* get_remote_file_size, lines 117-127: the Content-Length of the answer to
\* HEAD, or None when the request fails or the header is missing
ProbeResults(url) ==
    { [failed |-> TRUE, size |-> None] }
    \cup IF url \in DOMAIN Sites[site].files
         THEN { [failed |-> FALSE, size |-> Sites[site].files[url].head] }
         ELSE {}

\* lines 158-159: the sizes a completed copy may leave: the whole body, or
\* less when the connection closes early
CopiedSizes(url) ==
    IF url \in DOMAIN Sites[site].files
    THEN 0..Sites[site].files[url].body
    ELSE {}

\* lines 219-225 and download_file, lines 136-137
PdfEvent(probe) ==
    [LinkEvent EXCEPT
        !.path = link.local_path,
        !.expected = probe.size,
        !.probeFailed = probe.failed,
        !.existed = link.local_path \in DOMAIN files,
        !.sizeBefore = IF link.local_path \in DOMAIN files
                       THEN Some(files[link.local_path]) ELSE None]

\* the loop is at a PDF link: line 219
AtPdfLink == pc = "link" /\ link.act = "pdf"

\* what every pass of the loop on a PDF link does first: lines 219-225 and
\* the test of download_file, lines 136-148
PdfLink(probe, skip) ==
    /\ skip = SkipExisting(link.local_path \in DOMAIN files,
                           IF link.local_path \in DOMAIN files
                           THEN Some(files[link.local_path]) ELSE None,
                           probe.size)
    /\ UNCHANGED <<site, dry_run, run, queue, visited, current, links, link,
                   fetched, refetched, input, output>>

\* download_file, lines 136-140: the local file has the expected size
PdfSkipExists ==
    /\ AtPdfLink
    /\ \E probe \in ProbeResults(link.absolute) :
        /\ PdfLink(probe, TRUE)
        /\ pc' = AfterLinks(links)
        /\ clean' = (clean /\ ~probe.failed)
        /\ last' = [PdfEvent(probe) EXCEPT !.outcome = "skipped-exists"]
        /\ UNCHANGED <<files, dirs>>

\* download_file, lines 150-153
PdfDryRun ==
    /\ AtPdfLink
    /\ DryRunReturns(dry_run)
    /\ \E probe \in ProbeResults(link.absolute) :
        /\ PdfLink(probe, FALSE)
        /\ pc' = AfterLinks(links)
        /\ clean' = (clean /\ ~probe.failed)
        /\ last' = [PdfEvent(probe) EXCEPT !.outcome = "dry-run"]
        /\ UNCHANGED <<files, dirs>>

\* download_file, lines 155-158, and crawl, lines 233-234: urlopen raises
\* URLError; the local file was not opened
PdfFetchFail ==
    /\ AtPdfLink
    /\ ~DryRunReturns(dry_run)
    /\ \E probe \in ProbeResults(link.absolute) :
        /\ PdfLink(probe, FALSE)
        /\ pc' = AfterLinks(links)
        /\ clean' = FALSE
        /\ dirs' = dirs \cup Parents(link.local_path)
        /\ last' = [PdfEvent(probe) EXCEPT !.outcome = "failed", !.gets = 1]
        /\ UNCHANGED files

\* download_file, lines 155-168: the body is copied into the local file
PdfFetched ==
    /\ AtPdfLink
    /\ ~DryRunReturns(dry_run)
    /\ \E probe \in ProbeResults(link.absolute) :
        \E n \in CopiedSizes(link.absolute) :
            /\ PdfLink(probe, FALSE)
            /\ pc' = AfterLinks(links)
            /\ clean' = (clean /\ ~probe.failed
                         /\ n = Sites[site].files[link.absolute].body)
            /\ dirs' = dirs \cup Parents(link.local_path)
            /\ files' = (link.local_path :> n) @@ files
            /\ last' = [PdfEvent(probe) EXCEPT
                           !.outcome = DownloadOutcome(probe.size, n),
                           !.gets = 1, !.written = Some(n)]

\* lines 221 and 117-127: the HEAD request of get_remote_file_size raises
\* an exception that is none of HTTPError, URLError, ValueError (the server
\* closes the connection without an answer); neither line 126 nor crawl
\* catches it, download_file is not called
ProbeRaises ==
    /\ AtPdfLink
    /\ pc' = "aborted"
    /\ clean' = FALSE
    /\ last' = [LinkEvent EXCEPT
                   !.path = link.local_path,
                   !.probeFailed = TRUE,
                   !.existed = link.local_path \in DOMAIN files,
                   !.sizeBefore = IF link.local_path \in DOMAIN files
                                  THEN Some(files[link.local_path]) ELSE None,
                   !.outcome = "error", !.act = "probe"]
    /\ UNCHANGED <<site, dry_run, run, queue, visited, current, links, link,
                   files, dirs, fetched, refetched, input, output>>

\* download_file, lines 155-158, and crawl, lines 233-234: urlopen raises an
\* exception that is no URLError; the local file was not opened, crawl ends
PdfGetRaises ==
    /\ AtPdfLink
    /\ ~DryRunReturns(dry_run)
    /\ \E probe \in ProbeResults(link.absolute) :
        /\ PdfLink(probe, FALSE)
        /\ pc' = "aborted"
        /\ clean' = FALSE
        /\ dirs' = dirs \cup Parents(link.local_path)
        /\ last' = [PdfEvent(probe) EXCEPT
                       !.outcome = "error", !.act = "get", !.gets = 1]
        /\ UNCHANGED files

\* download_file, lines 155-159: mkdir, open or write raises OSError, which
\* nothing catches: crawl ends there. stage names the call that raised; a
\* failed write leaves the file it had opened, empty
PdfOSError ==
    /\ AtPdfLink
    /\ ~DryRunReturns(dry_run)
    /\ \E probe \in ProbeResults(link.absolute) :
        \E stage \in {"mkdir", "open", "write"} :
            /\ PdfLink(probe, FALSE)
            /\ stage = "write" => link.absolute \in DOMAIN Sites[site].files
            /\ pc' = "aborted"
            /\ clean' = FALSE
            /\ dirs' = IF stage = "mkdir" THEN dirs
                       ELSE dirs \cup Parents(link.local_path)
            /\ files' = IF stage = "write"
                        THEN (link.local_path :> 0) @@ files ELSE files
            /\ last' = [PdfEvent(probe) EXCEPT
                           !.outcome = "error", !.act = stage,
                           !.gets = IF stage = "mkdir" THEN 0 ELSE 1]

Next ==
    \/ PopVisited
    \/ FetchFail
    \/ FetchOk
    \/ Finish
    \/ SecondRun
    \/ NextLink
    \/ LinkDropped
    \/ LinkDir
    \/ PdfSkipExists
    \/ PdfDryRun
    \/ PdfFetchFail
    \/ PdfFetched
    \/ FetchRaises
    \/ ProbeRaises
    \/ PdfGetRaises
    \/ PdfOSError

Spec == Init /\ [][Next]_vars

\* the crawl under the failures it handles: every request may fail, no
\* call of the local filesystem does; the loop runs on while it can
NextHandled ==
    \/ PopVisited
    \/ FetchFail
    \/ FetchOk
    \/ Finish
    \/ SecondRun
    \/ NextLink
    \/ LinkDropped
    \/ LinkDir
    \/ PdfSkipExists
    \/ PdfDryRun
    \/ PdfFetchFail
    \/ PdfFetched

LiveSpec == Init /\ [][NextHandled]_vars /\ WF_vars(NextHandled)

\* the loop of crawl with line 192 removing any URL of the queue instead of
\* the last one, and every exception handled: the removal orders (LIFO,
\* FIFO, any other) of a work queue whose order is left open
OrderNext ==
    \/ \E i \in 1..Len(queue) : PopVisitedAt(i)
    \/ \E i \in 1..Len(queue) : FetchFailAt(i)
    \/ \E i \in 1..Len(queue) : FetchOkAt(i)
    \/ Finish
    \/ NextLink
    \/ LinkDropped
    \/ LinkDir
    \/ PdfSkipExists
    \/ PdfDryRun
    \/ PdfFetchFail
    \/ PdfFetched

OrderSpec == Init /\ [][OrderNext]_vars

(***************************************************************************)
(* The link classifier and the path derivation on their own                *)
(***************************************************************************)

\* the most tokens in an href given to the classifier
MaxTokens == 2

\* the most path segments below the root in a URL given to build_local_path
MaxSegs == 2

\* crawl, lines 207-208 and 215: the class the loop gives an href
CrawlClass(href) ==
    IF should_skip_link(href) THEN "skip" ELSE classify_link(href)

\* the pieces hrefs are made of
Tokens ==
    { <<"?">>, <<"#">>, <<"j","a","v","a","s","c","r","i","p","t",":">>,
      <<"J","a","v","a","S","c","r","i","p","t",":">>,
      <<"m","a","i","l","t","o",":">>, <<"M","A","I","L","T","O",":">>,
      <<".">>, <<".",".">>, <<".",".","/">>, <<"/">>, <<" ">>,
      <<"%","2","0">>, <<"%","2","e">>, <<"%","2","F">>, <<"%","0","9">>,
      <<"x">>, <<"s","u","b">>, <<"r","e","a","d","m","e">>,
      <<".","p","d","f">>, <<".","P","D","F">>, <<".","P","d","f">>,
      <<".","p","n","g">>, <<"p","d","f">>,
      <<"r","e","p","o","r","t",".","p","d","f">>,
      <<"s","u","b","/">>, <<".",".","/","x">>, <<"?","C","=","N">>,
      <<"#","f","r","a","g">>,
      <<"j","a","v","a","s","c","r","i","p","t",":","x">>,
      <<"m","a","i","l","t","o",":","a","@","b">>,
      <<"i","m","a","g","e",".","p","n","g">> }

\* the hrefs made of at most n tokens
RECURSIVE TokenStrings(_)
TokenStrings(n) ==
    IF n = 0 THEN { <<>> }
    ELSE TokenStrings(n - 1)
         \cup { p \o t : p \in TokenStrings(n - 1), t \in Tokens }

\* the path segments of file URLs
Segments ==
    { <<"2","0","2","0">>, <<"r","e","p","o","r","t",".","p","d","f">>,
      <<"a">>, <<".",".">>, <<"x"," ","y",".","p","d","f">>,
      <<"m","y","%","2","0","f","i","l","e",".","p","d","f">>,
      <<"a","%","2","e","p","d","f">>,
      <<"a",";","b",".","p","d","f">>, <<"v",";","1">> }

\* the roots a crawl is given, and their normal forms, which crawl (line 187)
\* passes to build_local_path
Roots ==
    { <<"h","t","t","p","s",":","/","/","h","/","i","m","a","g","e","s","/">>,
      <<"h","t","t","p","s",":","/","/","h","/","i","m","a","g","e","s">>,
      <<"h","t","t","p","s",":","/","/","h","/">> }

\* the sequences of 1 to n segments
SegmentPaths(n) == UNION { [1..k -> Segments] : k \in 1..n }

\* the file URL under the root whose path has the segments segs
FileUrl(root, segs) == normalize_directory_url(root) \o Join(segs, "/")

PureInputs ==
    { [fn |-> "classify", href |-> h, base |-> <<>>, segs |-> <<>>]
        : h \in TokenStrings(MaxTokens) }
    \cup { [fn |-> "path", href |-> <<>>, base |-> b, segs |-> sg]
             : b \in Roots, sg \in SegmentPaths(MaxSegs) }

\* no crawl is running: a call of one function on one input
PureInit ==
    /\ site = "names"
    /\ dry_run = FALSE
    /\ run = 1
    /\ pc = "call"
    /\ queue = <<>>
    /\ visited = {}
    /\ current = <<>>
    /\ links = <<>>
    /\ link = NoLink
    /\ files = <<>>
    /\ dirs = {}
    /\ fetched = {}
    /\ refetched = {}
    /\ clean = TRUE
    /\ last = NoEvent
    /\ input \in PureInputs
    /\ output = <<>>

\* lines 207-215: the loop classifies the href
Classify ==
    /\ pc = "call"
    /\ input.fn = "classify"
    /\ output' = << CrawlClass(input.href) >>
    /\ pc' = "return"
    /\ UNCHANGED <<site, dry_run, run, queue, visited, current, links, link,
                   files, dirs, fetched, refetched, clean, last, input>>

\* line 220: the loop derives the local path of a file URL
DerivePath ==
    /\ pc = "call"
    /\ input.fn = "path"
    /\ output' = << build_local_path(FileUrl(input.base, input.segs),
                                     normalize_directory_url(input.base),
                                     dest_root) >>
    /\ pc' = "return"
    /\ UNCHANGED <<site, dry_run, run, queue, visited, current, links, link,
                   files, dirs, fetched, refetched, clean, last, input>>

PureNext == Classify \/ DerivePath

PureSpec == PureInit /\ [][PureNext]_vars

(***************************************************************************)
(* Properties                                                              *)
(***************************************************************************)

\* the root of the crawl, with its slash
RootUrl ==
    IF Sites[site].root[Len(Sites[site].root)] = "/"
    THEN Sites[site].root
    ELSE Sites[site].root \o <<"/">>

\* url has the scheme and host of the root and a path that starts with the
\* root's path: a root is scheme://host/path/, so these are the URLs that
\* start with it
UnderRoot(url) ==
    /\ Len(url) >= Len(RootUrl)
    /\ \A i \in 1..Len(RootUrl) : url[i] = RootUrl[i]

\* the last step was a pass of the for loop on a PDF link: the size probe
\* and download_file were called
PdfCalled == last.kind = "link" /\ last.path # <<>> /\ last.act # "probe"

\* C1: every URL in the work queue, and every URL that the last step
\* enqueued, probed or passed to download_file, has the scheme and host of
\* the root and a path under the root's path
ScopeContainment ==
    /\ \A i \in 1..Len(queue) : UnderRoot(queue[i])
    /\ (last.kind = "link" /\ last.act \notin {"skip", "scope", "ignore"})
          => UnderRoot(last.url)

\* a link to a PDF outside the root was dropped, with directories queued
ScopeWitness ==
    /\ last.kind = "link"
    /\ last.act = "scope"
    /\ last.href = <<"/","x",".","p","d","f">>
    /\ \A i \in 1..Len(queue) : UnderRoot(queue[i])

DirA == RootUrl \o <<"a", "/">>

DirB == RootUrl \o <<"b", "/">>

\* C2: no directory is requested twice in a run; and when a run in which
\* nothing failed has ended on the tree where a/ links to b/ and b/ back to
\* a/, both were requested (so each exactly once)
AtMostOnceFetch ==
    /\ refetched = {}
    /\ (site = "cycle" /\ pc = "done" /\ clean) => {DirA, DirB} \subseteq fetched

\* the run on the cyclic tree has ended after it dequeued a/ and b/ again
CycleWitness ==
    /\ site = "cycle"
    /\ pc = "done"
    /\ clean
    /\ {DirA, DirB} \subseteq fetched
    /\ refetched = {}

\* under the failures the crawl handles (a listing, a probe or a file
\* request fails with URLError), every run ends: from some point on crawl
\* has returned with its queue empty
Termination == <>[](pc = "done" /\ Len(queue) = 0)

\* C3: whatever fails, the crawl goes on until its queue is empty: a state
\* in which the script can take no further step is one in which the queue
\* is empty
EndsWithEmptyQueue == Len(queue) = 0 \/ ENABLED Next

\* a run has ended after a listing could not be fetched
TerminationWitness ==
    /\ pc = "done"
    /\ Len(queue) = 0
    /\ ~clean
    /\ Cardinality(fetched) > 1

\* the server gives url's true length, and every file whose local path is
\* that of url has that length
TrueLength(url) ==
    /\ url \in DOMAIN Sites[site].files
    /\ Sites[site].files[url].head = Some(Sites[site].files[url].body)
    /\ \A other \in DOMAIN Sites[site].files :
          build_local_path(other, base_url, dest_root)
             = build_local_path(url, base_url, dest_root)
          => Sites[site].files[other].body = Sites[site].files[url].body

DryRunPurity ==
    [][dry_run => (files' = files /\ dirs' = dirs /\ last'.gets = 0)]_vars

\* a dry run has met a local file whose size is not the expected one
DryRunWitness ==
    /\ dry_run
    /\ PdfCalled
    /\ last.outcome = "dry-run"
    /\ last.existed
    /\ last.expected # None
    /\ last.sizeBefore # last.expected

\* C6: download_file without dry_run keeps the local file and reports
\* skipped-exists exactly when the file exists, the expected size is known
\* and the two sizes are equal; the file is then untouched and no GET is
\* sent; in every other case, once the parent directory is made, one GET is
\* sent and a completed copy replaces the local file
DecisionTable ==
    (PdfCalled /\ ~dry_run) =>
        /\ (last.outcome = "skipped-exists")
              <=> (/\ last.existed
                   /\ last.expected # None
                   /\ last.sizeBefore = last.expected)
        /\ (last.outcome = "skipped-exists")
              => (/\ last.gets = 0
                  /\ last.path \in DOMAIN files
                  /\ Some(files[last.path]) = last.sizeBefore)
        /\ (last.outcome # "skipped-exists" /\ last.act # "mkdir")
              => last.gets = 1
        /\ (last.outcome \in {"downloaded", "size-mismatch-warning"})
              => (/\ last.path \in DOMAIN files
                  /\ Some(files[last.path]) = last.written)

\* a local file was fetched again because the expected size was unknown
DecisionWitness ==
    /\ PdfCalled
    /\ ~dry_run
    /\ last.existed
    /\ last.expected = None
    /\ last.outcome = "downloaded"
    /\ last.gets = 1

\* C7: when a copy completes, the outcome is size-mismatch-warning if the
\* expected size is known and differs from the bytes written, and downloaded
\* otherwise; after a mismatch the file is kept as written, one GET was
\* sent, and the crawl goes on with the next link or the next directory
SizeMismatchHandling ==
    (PdfCalled /\ last.written # None) =>
        IF last.expected # None /\ last.written # last.expected
        THEN /\ last.outcome = "size-mismatch-warning"
             /\ last.path \in DOMAIN files
             /\ Some(files[last.path]) = last.written
             /\ last.gets = 1
             /\ pc = IF Len(links) > 0 THEN "links" ELSE "loop"
        ELSE last.outcome = "downloaded"

\* a local file of another size than expected was fetched again and the
\* copy is short: a warning, with links left to process
SizeMismatchWitness ==
    /\ PdfCalled
    /\ last.existed
    /\ last.expected # None
    /\ last.sizeBefore # last.expected
    /\ last.written # None
    /\ last.written # last.expected
    /\ last.outcome = "size-mismatch-warning"
    /\ pc = "links"

\* the name that 4.2 gives to a class of the script
ClassName(c) == IF c = "pdf" THEN "file" ELSE c

\* s starts with p, whatever the case of its letters
HasPrefixCI(s, p) ==
    /\ Len(s) >= Len(p)
    /\ \A i \in 1..Len(p) : LowerChar(s[i]) = p[i]

\* what follows the last c of s; all of s when it has none
AfterLast(s, c) ==
    IF \E i \in 1..Len(s) : s[i] = c
    THEN SubSeq(s, 1 + CHOOSE i \in 1..Len(s) :
                          s[i] = c /\ \A j \in (i+1)..Len(s) : s[j] # c,
                Len(s))
    ELSE s

\* the extension of a name: its last '.' and what follows it, in lower case
Extension(s) ==
    IF Contains(s, ".") THEN <<".">> \o Lower(AfterLast(s, ".")) ELSE <<>>

\* rules 2 to 6 of 4.2 on the decoded and trimmed value
RulesDecoded(d) ==
    IF d = <<>> \/ d = <<".">> \/ d = <<".", ".">>
       \/ (Len(d) >= 3 /\ SubSeq(d, 1, 3) = <<".", ".", "/">>)
    THEN "skip"
    ELSE IF Extension(d) = <<".", "p", "d", "f">> THEN "file"
    ELSE IF d[Len(d)] = "/" THEN "dir"
    ELSE IF ~Contains(AfterLast(d, "/"), ".") THEN "dir"
    ELSE "other"

\* the first rule of 4.2 that matches href, taken in the order 1 to 6
Rules42(href) ==
    IF \/ HasPrefixCI(href, <<"?">>)
       \/ HasPrefixCI(href, <<"#">>)
       \/ HasPrefixCI(href, <<"j","a","v","a","s","c","r","i","p","t",":">>)
       \/ HasPrefixCI(href, <<"m","a","i","l","t","o",":">>)
    THEN "skip"
    ELSE RulesDecoded(Strip(unquote(href)))

\* the examples of the classification table
Examples ==
    { << <<"r","e","p","o","r","t",".","p","d","f">>, "file" >>,
      << <<"s","u","b","/">>, "dir" >>,
      << <<".",".">>, "skip" >>,
      << <<".",".","/","x">>, "skip" >>,
      << <<"?","C","=","N">>, "skip" >>,
      << <<"#","f","r","a","g">>, "skip" >>,
      << <<"j","a","v","a","s","c","r","i","p","t",":","x">>, "skip" >>,
      << <<"m","a","i","l","t","o",":","a","@","b">>, "skip" >>,
      << <<"r","e","a","d","m","e">>, "dir" >>,
      << <<"i","m","a","g","e",".","p","n","g">>, "other" >> }

\* C8: the class the crawl gives an href is that of the first matching rule
\* of 4.2, and the ten examples get the classes the table names
Classification ==
    (pc = "return" /\ input.fn = "classify") =>
        /\ ClassName(output[1]) = Rules42(input.href)
        /\ \A e \in Examples :
              input.href = e[1] => ClassName(output[1]) = e[2]

\* an href with an escaped space before an upper-case extension was
\* classified a file
ClassificationWitness ==
    /\ pc = "return"
    /\ input.fn = "classify"
    /\ input.href = <<"%","2","0",".","P","D","F">>
    /\ output = << "pdf" >>

\* C9: a file URL whose path is the root's path followed by segments without
\* percent-escapes gets the local path of these segments under the
\* destination
PathPreservesStructure ==
    (/\ pc = "return"
     /\ input.fn = "path"
     /\ \A i \in 1..Len(input.segs) : ~Contains(input.segs[i], "%"))
       => output[1] = dest_root \o input.segs

\* C10: the segments after the root's path are percent-decoded one by one
\* before they are joined onto the destination
PathPercentDecodes ==
    (/\ pc = "return"
     /\ input.fn = "path"
     /\ \A i \in 1..Len(input.segs) : ~Contains(input.segs[i], ";"))
       => output[1]
            = dest_root \o [i \in 1..Len(input.segs) |-> unquote(input.segs[i])]

\* the directories of site s reached from the root in at most n steps along
\* the links of their listings that are in scope and classified directories,
\* every href resolved against the URL of the directory that lists it
RECURSIVE ReachableDirs(_, _)
ReachableDirs(s, n) ==
    IF n = 0 THEN { Directory(Sites[s].root) }
    ELSE ReachableDirs(s, n - 1)
         \cup { Directory(LinkTable[s][d, Sites[s].pages[d][i]].absolute) :
                  <<d, i>> \in { <<d, i>> \in
                                   (ReachableDirs(s, n - 1) \cap DOMAIN Sites[s].pages)
                                   \X (1..20) :
                                   /\ i <= Len(Sites[s].pages[d])
                                   /\ LinkTable[s][d, Sites[s].pages[d][i]].act = "queue" } }

\* the local paths of the links of these directories that are in scope and
\* classified files
MirrorOf(s) ==
    { LinkTable[s][d, Sites[s].pages[d][i]].local_path :
        <<d, i>> \in { <<d, i>> \in
                         (ReachableDirs(s, Cardinality(DOMAIN Sites[s].pages))
                          \cap DOMAIN Sites[s].pages) \X (1..20) :
                         /\ i <= Len(Sites[s].pages[d])
                         /\ LinkTable[s][d, Sites[s].pages[d][i]].act = "pdf" } }

Mirror == [s \in DOMAIN Sites |-> MirrorOf(s)]

\* C11: when a run that is no dry run, into an empty destination, has ended
\* and no request failed and no copy was short, the files of the
\* destination are the local paths of the file links reachable from the
\* root, no more and no fewer
MirrorExact ==
    (pc = "done" /\ run = 1 /\ ~dry_run /\ clean /\ Sites[site].pre = {})
       => DOMAIN files = Mirror[site]

\* the last step met a failure: a listing that could not be fetched, a size
\* probe that failed, a file request that failed, or a parent directory or
\* a local file that could not be made or written
FailureStep ==
    \/ (last.kind = "fetch" /\ last.act \in {"fail", "raise"})
    \/ (last.kind = "link" /\ last.probeFailed)
    \/ (last.kind = "link" /\ last.outcome \in {"failed", "error"})

\* C12: after a failure the crawl is at the next link of the listing, or at
\* the next queued directory: the run has not ended
NoRunFatalError == FailureStep => pc = AfterLinks(links)

\* the last step was a listing request that failed
FetchFailed == last.kind = "fetch" /\ last.act \in {"fail", "raise"}

\* C13: the step on which the listing of a dequeued directory cannot be
\* fetched leaves the directory in the visited set, takes only that URL
\* off the queue, adds none, touches no file, and leaves the crawl at the
\* next queued directory; the visited set never shrinks during a run and no
\* directory is requested a second time
FetchFailureAbandons ==
    /\ [][FetchFailed' =>
            /\ normalize_directory_url(last'.url) \in visited'
            /\ queue' = SubSeq(queue, 1, Len(queue) - 1)
            /\ files' = files
            /\ dirs' = dirs
            /\ pc' = "loop"]_vars
    /\ [][run' = run => visited \subseteq visited']_vars
    /\ [](refetched = {})

\* the last step was the pass of the loop over a PDF link: lines 219-234
PdfPass == last.kind = "link" /\ last.path # <<>>

\* C14: every pass of the loop over a PDF link reaches the call of
\* download_file, whatever became of the size probe before it: no pass ends
\* in the probe, and a probe that failed does not end the crawl
ProbeNeverBlocks ==
    PdfPass => /\ PdfCalled
               /\ last.act = "probe" => pc # "aborted"

\* C16: the URL of every listing request, which is also the URL the hrefs of
\* that listing are resolved against, is the normalized directory URL: it
\* ends in "/" and is in the visited set when the request is made and while
\* the links of the listing are processed
FetchesNormalized ==
    /\ last.kind = "fetch" =>
          /\ last.url = normalize_directory_url(last.url)
          /\ last.url[Len(last.url)] = "/"
          /\ last.url \in visited
    /\ pc \in {"links", "link"} =>
          /\ current[Len(current)] = "/"
          /\ current \in visited

\* the links of the listing served at cur, resolved as the loop resolves them
PageLinks(s, cur) ==
    [i \in 1..Len(ServedPage(s, cur)[1]) |->
        LinkTable[s][cur, ServedPage(s, cur)[1][i]]]

QueuedOf(rs) == SelectSeq(rs, LAMBDA r : r.act = "queue")

AbsoluteOf(rs) == [i \in 1..Len(rs) |-> rs[i].absolute]

\* crawl run to its end with no request failing, removing the last URL of
\* the queue as line 192 does: the directories it requests and the file
\* links it hands to download_file
RECURSIVE LifoCrawl(_, _, _, _)
LifoCrawl(s, q, seen, pdfs) ==
    IF Len(q) = 0 THEN [fetched |-> seen, dispatched |-> pdfs]
    ELSE IF normalize_directory_url(q[Len(q)]) \in seen
    THEN LifoCrawl(s, SubSeq(q, 1, Len(q) - 1), seen, pdfs)
    ELSE IF ServedPage(s, q[Len(q)]) = <<>>
    THEN LifoCrawl(s, SubSeq(q, 1, Len(q) - 1),
                   seen \cup {normalize_directory_url(q[Len(q)])}, pdfs)
    ELSE LifoCrawl(s,
                   SubSeq(q, 1, Len(q) - 1)
                      \o AbsoluteOf(QueuedOf(PageLinks(s, q[Len(q)]))),
                   seen \cup {normalize_directory_url(q[Len(q)])},
                   pdfs \cup { PageLinks(s, q[Len(q)])[i] :
                                 i \in { i \in 1..Len(PageLinks(s, q[Len(q)])) :
                                           PageLinks(s, q[Len(q)])[i].act = "pdf" } })

LifoResult ==
    [s \in DOMAIN Sites |->
        LifoCrawl(s, << normalize_directory_url(Sites[s].root) >>, {}, {})]

\* C15: whatever URL of the queue each pass removes, a first run in which
\* no request fails requests the directories, hands download_file the file
\* links, and leaves in the destination the files, that the run removing
\* the last URL does
OrderIndependent ==
    /\ (PdfCalled /\ run = 1) =>
          \E r \in LifoResult[site].dispatched :
             r.absolute = last.url /\ r.local_path = last.path
    /\ (pc = "done" /\ run = 1 /\ clean) =>
          /\ fetched = LifoResult[site].fetched
          /\ ~dry_run =>
                /\ \A r \in LifoResult[site].dispatched :
                      /\ r.local_path \in DOMAIN files
                      /\ files[r.local_path] = Sites[site].files[r.absolute].body
                /\ DOMAIN files \subseteq
                      Sites[site].pre
                      \cup { r.local_path : r \in LifoResult[site].dispatched }

\* url was taken, as a directory link, from the listing of a directory that
\* is in the visited set
FromVisitedListing(url) ==
    \E d \in Served(site) :
        /\ normalize_directory_url(d) \in visited
        /\ \E k \in 1..Len(PageLinks(site, d)) :
              /\ PageLinks(site, d)[k].act = "queue"
              /\ PageLinks(site, d)[k].absolute = url

\* C17: during a run the visited set never shrinks; the queue changes only
\* by the removal of the URL that is then processed, or by the append of a
\* directory link of the listing in progress, whose directory is in the
\* visited set by then; every queued URL is the root or was taken from the
\* listing of a directory in the visited set
VisitedDiscipline ==
    /\ [][run' = run => visited \subseteq visited']_vars
    /\ [][(run' = run /\ queue' # queue) =>
            \/ /\ pc = "loop"
               /\ Len(queue) > 0
               /\ queue' = SubSeq(queue, 1, Len(queue) - 1)
               /\ current' = queue[Len(queue)]
            \/ /\ pc = "link"
               /\ link.act = "queue"
               /\ queue' = Append(queue, link.absolute)
               /\ normalize_directory_url(current) \in visited]_vars
    /\ [](\A i \in 1..Len(queue) :
             queue[i] = RootUrl \/ FromVisitedListing(queue[i]))

\* a link to a directory that is in the visited set already was appended to
\* the queue, beside a URL that is not the root
VisitedWitness ==
    /\ last.kind = "link"
    /\ last.act = "queue"
    /\ normalize_directory_url(last.url) \in visited
    /\ queue[Len(queue)] = last.url
    /\ \E i \in 1..Len(queue) : queue[i] # RootUrl

\* what a step of a run in which nothing fails does to the queue, the
\* visited set and the position in the listing, told from these alone:
\* neither dry_run nor the destination appears in it
TraversalStep ==
    \/ /\ pc = "loop"
       /\ Len(queue) = 0
       /\ pc' = "done"
       /\ UNCHANGED <<queue, visited, current, links, link>>
    \/ /\ pc = "loop"
       /\ Len(queue) > 0
       /\ normalize_directory_url(queue[Len(queue)]) \in visited
       /\ queue' = SubSeq(queue, 1, Len(queue) - 1)
       /\ current' = queue[Len(queue)]
       /\ UNCHANGED <<pc, visited, links, link>>
    \/ /\ pc = "loop"
       /\ Len(queue) > 0
       /\ normalize_directory_url(queue[Len(queue)]) \notin visited
       /\ queue' = SubSeq(queue, 1, Len(queue) - 1)
       /\ current' = queue[Len(queue)]
       /\ visited' = visited \cup {normalize_directory_url(queue[Len(queue)])}
       /\ last'.kind = "fetch"
       /\ last'.url = queue[Len(queue)]
       /\ links' = ServedPage(site, queue[Len(queue)])[1]
       /\ pc' = IF Len(links') = 0 THEN "loop" ELSE "links"
       /\ UNCHANGED link
    \/ /\ pc = "links"
       /\ link' = LinkTable[site][current, Head(links)]
       /\ links' = Tail(links)
       /\ pc' = "link"
       /\ UNCHANGED <<queue, visited, current>>
    \/ /\ pc = "link"
       /\ queue' = IF link.act = "queue"
                   THEN Append(queue, link.absolute) ELSE queue
       /\ pc' = IF Len(links) = 0 THEN "loop" ELSE "links"
       /\ link.act = "pdf" =>
             /\ last'.kind = "link"
             /\ last'.url = link.absolute
             /\ last'.act # "probe"
             /\ last'.expected = Sites[site].files[link.absolute].head
       /\ UNCHANGED <<visited, current, links, link>>

\* C18: in a run in which nothing fails, with dry_run or without it, every
\* step moves the queue, the visited set and the position in the listing as
\* TraversalStep tells, requests the listing it tells and sends the size
\* probe it tells: the listings requested, their order and the probes do
\* not depend on dry_run
DryRunSameTraversal ==
    [][(run' = run /\ ~FailureStep') => TraversalStep]_vars

\* a dry run that met no failure has gone down into a directory below the
\* root and has sent the size probe for a file link found there
DryRunTraversalWitness ==
    /\ dry_run
    /\ clean
    /\ PdfCalled
    /\ last.outcome = "dry-run"
    /\ current # RootUrl
    /\ Cardinality(fetched) >= 2

\* how far beneath its start a walk along parts ends, ".." going one up; -1
\* once the walk has gone above its start
RECURSIVE DepthBelow(_, _)
DepthBelow(parts, depth) ==
    IF depth < 0 THEN -1
    ELSE IF Len(parts) = 0 THEN depth
    ELSE IF parts[1] = <<".", ".">> THEN DepthBelow(Tail(parts), depth - 1)
    ELSE DepthBelow(Tail(parts), depth + 1)

\* path names a file beneath root: it starts with the parts of root, and
\* the parts after them stay beneath root and end beneath it
Beneath(path, root) ==
    /\ Len(path) > Len(root)
    /\ SubSeq(path, 1, Len(root)) = root
    /\ DepthBelow(SubSeq(path, Len(root) + 1, Len(path)), 0) > 0

\* C19: the local path of every call of download_file names a file beneath
\* the destination root, and so does every file of the destination
DestinationContainment ==
    /\ PdfCalled => Beneath(last.path, dest_root)
    /\ \A p \in DOMAIN files : Beneath(p, dest_root)

\* the last step was a call of download_file that went to fetch a file that
\* lay in the destination, and the request for it could not be opened
RefetchOpenFailed ==
    /\ PdfCalled
    /\ last.existed
    /\ last.gets = 1
    /\ last.act \in {"pdf", "get"}
    /\ last.outcome \in {"failed", "error"}

\* C20: when the request of a re-fetch cannot be opened, the local file is
\* there with the size it had, the failure is the failed download of that
\* link, and the crawl is at the next link
RefetchFailureKeepsFile ==
    RefetchOpenFailed =>
       /\ last.path \in DOMAIN files
       /\ Some(files[last.path]) = last.sizeBefore
       /\ last.outcome = "failed"
       /\ pc = AfterLinks(links)

====
